---- MODULE Spec2Model ----
(***************************************************************************)
(* Model of github_resolver/send_pull_request.py: apply_patch (the patch   *)
(* application engine) and the script that drives it (load the record,     *)
(* initialize_repo, apply_patch, make_commit, send_pull_request).          *)
(*                                                                         *)
(* File contents and paths are sequences of one-character tokens.  The    *)
(* working directory repo_dir is implicit: a path of the model is the path *)
(* relative to repo_dir that os.path.join(repo_dir, ...) names.            *)
(* The platform is POSIX (the script compares paths with /dev/null and     *)
(* quotes its shell commands with single quotes), so os.linesep is LF.     *)
(***************************************************************************)
EXTENDS Integers, Sequences, FiniteSets, TLC

\* ------------------------------------------------------------- bounds
\* Longest file content (in characters) drawn by the single-file harness.
MaxLen == 3
\* Most file sections in one patch drawn by the script specification.
MaxSections == 2

\* --------------------------------------------------------- characters
CR == "CR"
LF == "LF"
SP == "SP"
Chars == {"a", SP, CR, LF}

\* str.strip(None) removes whitespace; the whitespace of the alphabet.
Whitespace == {SP, CR, LF}

Str(n) == UNION {[1..k -> Chars] : k \in 0..n}

\* A file that does not exist (no content is this sequence: "-" is no Char).
NoFile == <<"-">>

\* An absent header path (None or ""): falsy in Python.
NoPath == <<>>
DevNull == <<"/", "d", "e", "v", "/", "n", "u", "l", "l">>

RECURSIVE Concat(_)
Concat(ss) == IF ss = <<>> THEN <<>> ELSE Head(ss) \o Concat(Tail(ss))

\* ------------------------------------------------- str.lstrip / strip
RECURSIVE LStripChars(_, _)
LStripChars(s, set) ==
    IF s # <<>> /\ Head(s) \in set THEN LStripChars(Tail(s), set) ELSE s

RECURSIVE RStripChars(_, _)
RStripChars(s, set) ==
    IF s # <<>> /\ s[Len(s)] \in set
    THEN RStripChars(SubSeq(s, 1, Len(s) - 1), set)
    ELSE s

StripChars(s, set) == RStripChars(LStripChars(s, set), set)

\* ------------------------------------------------------- line endings
HasCRLF(c) == \E i \in 1..(Len(c) - 1) : c[i] = CR /\ c[i + 1] = LF
HasLF(c) == \E i \in 1..Len(c) : c[i] = LF

\* Lines 42-47: the newline argument chosen from the old file's bytes.
DetectNewline(c) ==
    IF HasCRLF(c) THEN "CRLF" ELSE IF HasLF(c) THEN "LF" ELSE "None"

\* The characters x.strip(newline) removes from both ends of a line.
StripSet(newline) ==
    CASE newline = "CRLF" -> {CR, LF}
      [] newline = "LF" -> {LF}
      [] OTHER -> Whitespace

\* f.readlines() of a text file opened with newline=...: with "CRLF" or "LF"
\* lines end only at that terminator and nothing is translated; with None
\* (universal newlines) CR LF, CR and LF all end a line and read as LF.
RECURSIVE ReadLinesFrom(_, _, _, _)
ReadLinesFrom(c, i, cur, newline) ==
    IF i > Len(c) THEN (IF cur = <<>> THEN <<>> ELSE <<cur>>)
    ELSE IF newline = "CRLF" THEN
        IF c[i] = CR /\ i < Len(c) /\ c[i + 1] = LF
        THEN <<cur \o <<CR, LF>>>> \o ReadLinesFrom(c, i + 2, <<>>, newline)
        ELSE ReadLinesFrom(c, i + 1, Append(cur, c[i]), newline)
    ELSE IF newline = "LF" THEN
        IF c[i] = LF
        THEN <<Append(cur, LF)>> \o ReadLinesFrom(c, i + 1, <<>>, newline)
        ELSE ReadLinesFrom(c, i + 1, Append(cur, c[i]), newline)
    ELSE
        IF c[i] = CR /\ i < Len(c) /\ c[i + 1] = LF
        THEN <<Append(cur, LF)>> \o ReadLinesFrom(c, i + 2, <<>>, newline)
        ELSE IF c[i] \in {CR, LF}
        THEN <<Append(cur, LF)>> \o ReadLinesFrom(c, i + 1, <<>>, newline)
        ELSE ReadLinesFrom(c, i + 1, Append(cur, c[i]), newline)

ReadLines(c, newline) == ReadLinesFrom(c, 1, <<>>, newline)

\* Lines 49-50: split_content = [x.strip(newline) for x in f.readlines()].
SplitContent(c, newline) ==
    LET raw == ReadLines(c, newline)
    IN [k \in 1..Len(raw) |-> StripChars(raw[k], StripSet(newline))]

\* What a text file opened for writing with newline=... does to each LF
\* written: CR LF with "CRLF", os.linesep with None, nothing with "LF".
os_linesep == <<LF>>

RECURSIVE Translate(_, _)
Translate(s, newline) ==
    IF s = <<>> THEN <<>>
    ELSE (IF Head(s) = LF
          THEN (CASE newline = "CRLF" -> <<CR, LF>>
                  [] newline = "LF" -> <<LF>>
                  [] OTHER -> os_linesep)
          ELSE <<Head(s)>>) \o Translate(Tail(s), newline)

\* Mutant: the file is written without the newline argument.
WriteLinesNoNewlineArg(lines, newline) ==
    Concat([k \in 1..Len(lines) |-> Append(lines[k], LF)])

\* Lines 58-60: print(line, file=f) for each line, f opened with newline=...
WriteLines(lines, newline) ==
    Translate(Concat([k \in 1..Len(lines) |-> Append(lines[k], LF)]), newline)

\* ------------------------------------------------------- hunk applier
\* A DiffRecord is [old_path, new_path, hunks]; a Hunk is [old_start, lines]
\* with old_start 1-based and each line [tag, text], tag one of "Context",
\* "Added", "Removed".
OldSide(h) == SelectSeq(h.lines, LAMBDA t : t.tag # "Added")

\* The 0-based offset of the hunk's first original line.  A hunk that takes
\* no original line (old count 0) names the line it follows.
Offset(h) == IF OldSide(h) = <<>> THEN h.old_start ELSE h.old_start - 1

\* Walk the tagged lines of one hunk from cursor cur (original lines consumed).
RECURSIVE WalkLines(_, _, _, _)
WalkLines(tl, orig, cur, outl) ==
    IF tl = <<>> THEN [ok |-> TRUE, cur |-> cur, lines |-> outl]
    ELSE LET t == Head(tl) IN
        IF t.tag = "Added"
        THEN WalkLines(Tail(tl), orig, cur, Append(outl, t.text))
        ELSE IF cur >= Len(orig) \/ orig[cur + 1] # t.text
        THEN [ok |-> FALSE, cur |-> cur, lines |-> outl]
        ELSE WalkLines(Tail(tl), orig, cur + 1,
                       IF t.tag = "Context" THEN Append(outl, orig[cur + 1])
                       ELSE outl)

RECURSIVE ApplyHunks(_, _, _, _)
ApplyHunks(hunks, orig, cur, outl) ==
    IF hunks = <<>>
    THEN [ok |-> TRUE, lines |-> outl \o SubSeq(orig, cur + 1, Len(orig))]
    ELSE LET h == Head(hunks)
             off == Offset(h)
         IN IF off < cur \/ off > Len(orig)
            THEN [ok |-> FALSE, lines |-> <<>>]
            ELSE LET w == WalkLines(h.lines, orig, off,
                                    outl \o SubSeq(orig, cur + 1, off))
                 IN IF ~w.ok THEN [ok |-> FALSE, lines |-> <<>>]
                    ELSE ApplyHunks(Tail(hunks), orig, w.cur, w.lines)

\* whatthepatch.apply_diff(diff, split_content): the new sequence of lines,
\* or a failure (HunkApplyException, the spec's MalformedHunkError).
ApplyDiff(hunks, orig) == ApplyHunks(hunks, orig, 0, <<>>)

\* ------------------------------------------------------ diff producer
\* The hunks of the unified diff of A and B, as the parser hands them on:
\* lines are compared with their terminators, hunk texts carry none.
FileLines(c) == IF c = NoFile THEN <<>> ELSE ReadLines(c, "LF")

HunkText(line) ==
    LET noLF == IF line # <<>> /\ line[Len(line)] = LF
                THEN SubSeq(line, 1, Len(line) - 1) ELSE line
    IN IF noLF # <<>> /\ noLF[Len(noLF)] = CR
       THEN SubSeq(noLF, 1, Len(noLF) - 1) ELSE noLF

Min(x, y) == IF x <= y THEN x ELSE y

RECURSIVE CommonPrefix(_, _)
CommonPrefix(la, lb) ==
    IF la # <<>> /\ lb # <<>> /\ Head(la) = Head(lb)
    THEN 1 + CommonPrefix(Tail(la), Tail(lb))
    ELSE 0

Reverse(s) == [k \in 1..Len(s) |-> s[Len(s) + 1 - k]]

Tagged(tag, ls) == [k \in 1..Len(ls) |-> [tag |-> tag, text |-> HunkText(ls[k])]]

\* ctx: the lines of context kept around the change (diff -U ctx).
Compare(A, B, ctx) ==
    LET la == FileLines(A)
        lb == FileLines(B)
        p == CommonPrefix(la, lb)
        s == CommonPrefix(Reverse(SubSeq(la, p + 1, Len(la))),
                          Reverse(SubSeq(lb, p + 1, Len(lb))))
        c1 == Min(p, ctx)
        c2 == Min(s, ctx)
        body == Tagged("Context", SubSeq(la, p - c1 + 1, p))
                \o Tagged("Removed", SubSeq(la, p + 1, Len(la) - s))
                \o Tagged("Added", SubSeq(lb, p + 1, Len(lb) - s))
                \o Tagged("Context", SubSeq(la, Len(la) - s + 1, Len(la) - s + c2))
        olds == c1 + (Len(la) - s - p) + c2
    IN IF p = Len(la) /\ p = Len(lb) THEN <<>>
       ELSE <<[old_start |-> IF olds = 0 THEN p ELSE p - c1 + 1, lines |-> body]>>

\* -------------------------------------------------------------- paths
\* Lines 30, 34: os.path.join(repo_dir, header_path.lstrip('b/')).  lstrip
\* takes a set of characters: every leading "b" and "/" is removed.
Resolve(p) == LStripChars(p, {"b", "/"})

\* The directory part of a relative path (<<>> is repo_dir itself).
RECURSIVE Parent(_)
Parent(p) ==
    IF p = <<>> THEN <<>>
    ELSE IF p[Len(p)] = "/" THEN RStripChars(p, {"/"})
    ELSE Parent(SubSeq(p, 1, Len(p) - 1))

IsDir(d, p) == p = <<>> \/ p \in d

FileAt(f, p) == IF p \in DOMAIN f THEN f[p] ELSE NoFile

\* open(path, 'rb') / open(path, 'r'): "" when it succeeds, else the error.
OpenRead(f, d, p) ==
    IF IsDir(d, p) THEN "IsADirectoryError"
    ELSE IF FileAt(f, p) = NoFile THEN "FileNotFoundError"
    ELSE ""

\* Mutant: the file is opened with mode 'x', which refuses an existing file.
OpenWriteExclusive(f, d, p) ==
    IF IsDir(d, p) THEN "IsADirectoryError"
    ELSE IF ~IsDir(d, Parent(p)) THEN "FileNotFoundError"
    ELSE IF FileAt(f, p) # NoFile THEN "FileExistsError"
    ELSE ""

\* open(path, 'w'): it creates the file, never a directory.
OpenWrite(f, d, p) ==
    IF IsDir(d, p) THEN "IsADirectoryError"
    ELSE IF ~IsDir(d, Parent(p)) THEN "FileNotFoundError"
    ELSE ""

\* ---------------------------------------------------- one file section
NoLocals ==
    [kind |-> "", old_path |-> <<>>, new_path |-> <<>>, newline |-> "",
     content |-> <<>>, split_content |-> <<>>, new_content |-> <<>>]

Result(kind, e, f, ops, l) ==
    [kind |-> kind, err |-> e, fs |-> f, io |-> ops, loc |-> l]

\* Mutant: a section without a new path is an error.
SkipSectionRaises(f) ==
    Result("raised", "ValueError", f, <<>>, NoLocals)

\* Lines 25-27: the warning, and continue.
SkipSection(f) == Result("skipped", "", f, <<>>, NoLocals)

HasOld(diff) == diff.old_path # NoPath /\ diff.old_path # DevNull

\* Lines 29-53: old_path, newline and split_content (ok = FALSE: open failed).
ReadOld(f, d, diff) ==
    LET old == Resolve(diff.old_path)
        e == OpenRead(f, d, old)
    IN IF ~HasOld(diff)
       THEN [ok |-> TRUE, err |-> "", io |-> <<>>, old_path |-> <<>>,
             newline |-> "LF", content |-> <<>>, split_content |-> <<>>]
       ELSE IF e # ""
       THEN [ok |-> FALSE, err |-> e, io |-> <<<<"rb", old>>>>, old_path |-> old,
             newline |-> "", content |-> <<>>, split_content |-> <<>>]
       ELSE LET c == FileAt(f, old)
                nl == DetectNewline(c)
            IN [ok |-> TRUE, err |-> "", io |-> <<<<"rb", old>>, <<"r", old>>>>,
                old_path |-> old, newline |-> nl, content |-> c,
                split_content |-> SplitContent(c, nl)]

Locals(rd, new, lines) ==
    [kind |-> "", old_path |-> rd.old_path, new_path |-> new, newline |-> rd.newline,
     content |-> rd.content, split_content |-> rd.split_content,
     new_content |-> lines]

\* Mutant: new_path is opened for writing before the hunks are applied.
ApplyAndWriteOpenFirst(f, d, diff, rd) ==
    LET new == Resolve(diff.new_path)
        a == ApplyDiff(diff.hunks, rd.split_content)
        e == OpenWrite(f, d, new)
    IN IF e # ""
       THEN Result("raised", e, f, rd.io \o <<<<"w", new>>>>, Locals(rd, new, <<>>))
       ELSE IF ~a.ok
       THEN Result("raised", "HunkApplyException", [f EXCEPT ![new] = <<>>],
                   rd.io \o <<<<"w", new>>>>, Locals(rd, new, <<>>))
       ELSE Result("applied", "",
                   [f EXCEPT ![new] = WriteLines(a.lines, rd.newline)],
                   rd.io \o <<<<"w", new>>>>, Locals(rd, new, a.lines))

\* Lines 55-60: apply_diff, then the write of new_path.
ApplyAndWrite(f, d, diff, rd) ==
    LET new == Resolve(diff.new_path)
        a == ApplyDiff(diff.hunks, rd.split_content)
        e == OpenWrite(f, d, new)
    IN IF ~a.ok
       THEN Result("raised", "HunkApplyException", f, rd.io, Locals(rd, new, <<>>))
       ELSE IF e # ""
       THEN Result("raised", e, f, rd.io \o <<<<"w", new>>>>,
                   Locals(rd, new, a.lines))
       ELSE Result("applied", "",
                   [f EXCEPT ![new] = WriteLines(a.lines, rd.newline)],
                   rd.io \o <<<<"w", new>>>>, Locals(rd, new, a.lines))

\* Lines 25-60: the body of the loop for one diff.
ProcessSection(f, d, diff) ==
    IF diff.new_path = NoPath THEN SkipSection(f)
    ELSE LET rd == ReadOld(f, d, diff)
         IN IF ~rd.ok
            THEN Result("raised", rd.err, f, rd.io,
                        Locals(rd, Resolve(diff.new_path), <<>>))
            ELSE ApplyAndWrite(f, d, diff, rd)

\* Mutant: the error of a section is caught and the loop goes on.
AfterSectionContinue(kind) == "patch"

\* Lines 24-60 hold no try: an exception leaves the loop and the function.
AfterSection(kind) == IF kind = "raised" THEN "raised" ELSE "patch"

\* -------------------------------------------------------------- inputs
\* Header paths as the parser hands them on: git form (no prefix), plain
\* unified form (a/, b/), a first component that begins with b, a file in a
\* directory named b, a file in a directory that does not exist yet.
P_x == <<"x">>
P_ax == <<"a", "/", "x">>
P_bx == <<"b", "/", "x">>
P_binx == <<"b", "i", "n", "/", "x">>
P_bbx == <<"b", "/", "b", "/", "x">>
P_dx == <<"d", "/", "x">>
P_inx == <<"i", "n", "/", "x">>

HeaderPaths == {P_x, P_ax, P_bx, P_binx, P_bbx, P_dx}

\* Every file the model tracks under repo_dir.
Files == {P_x, P_ax, P_bx, P_binx, P_inx, P_dx}

EmptyDir == [p \in Files |-> NoFile]

T0 == <<SP, LF>>
T1 == <<"a", LF>>
T2 == <<"a", LF, SP, LF>>
T3 == <<"a", LF, SP, LF, "a", LF>>

\* A file of CR LF lines one of which holds a bare LF.
Mixed == <<"a", LF, "a", CR, LF>>

\* Two hunks: lines 1 and 3 of T3 replaced, line 2 untouched between them.
TwoHunks ==
    << [old_start |-> 1, lines |-> <<[tag |-> "Removed", text |-> <<"a">>],
                                     [tag |-> "Added", text |-> <<SP>>]>>],
       [old_start |-> 3, lines |-> <<[tag |-> "Removed", text |-> <<"a">>],
                                     [tag |-> "Added", text |-> <<SP>>]>>] >>

\* The repository at the base commit: files and directories.
Layouts ==
    { [fs |-> EmptyDir, dirs |-> {}],
      [fs |-> [EmptyDir EXCEPT ![P_x] = T1], dirs |-> {}],
      [fs |-> [EmptyDir EXCEPT ![P_x] = T2, ![P_binx] = T1],
       dirs |-> {<<"b", "i", "n">>, <<"d">>}],
      [fs |-> [EmptyDir EXCEPT ![P_ax] = T0], dirs |-> {<<"a">>}],
      [fs |-> [EmptyDir EXCEPT ![P_x] = T3], dirs |-> {}],
      [fs |-> [EmptyDir EXCEPT ![P_x] = Mixed], dirs |-> {}],
      [fs |-> [EmptyDir EXCEPT ![P_x] = T1, ![P_bx] = T2, ![P_inx] = T1,
                               ![P_ax] = T2],
       dirs |-> {<<"a">>, <<"b">>, <<"i", "n">>}] }

Section(old, new, hunks) == [old_path |-> old, new_path |-> new, hunks |-> hunks]

\* The file sections a patch is made of: in-place changes, a change in plain
\* unified form, a change of two hunks, a line put on top of a file (diff -U0),
\* pure creations, and a section without a new path.
SectionPool ==
    { Section(o, o, h) : o \in {P_x, P_binx, P_bbx},
                         h \in {Compare(T1, T2, 1), Compare(T2, T1, 1)} }
    \cup { Section(P_ax, P_bx, Compare(T1, T2, 1)) }
    \cup { Section(P_x, P_x, TwoHunks) }
    \cup { Section(P_x, P_x, Compare(Mixed, <<"a", CR, LF>> \o Mixed, 0)) }
    \cup { Section(DevNull, n, Compare(NoFile, T1, 1)) : n \in {P_x, P_dx} }
    \cup { Section(P_x, NoPath, Compare(T1, T2, 1)) }

Patches == UNION {[1..n -> SectionPool] : n \in 1..MaxSections}

\* --------------------------------------------------------------- state
VARIABLES
    pc,       \* where the script (or the caller of apply_patch) stands
    repo,     \* output_dir/repo: the layout initialize_repo copies
    fs,       \* the files under repo_dir (patched_repo_dir)
    dirs,     \* the directories under repo_dir
    patch,    \* the parsed diffs of resolver_output.git_patch
    idx,      \* the diff the loop of apply_patch is at
    out,      \* what apply_patch printed
    err,      \* the exception that ended the run ("" for none)
    io,       \* every open() of apply_patch: [op, path, sec]
    loc,      \* the locals of the last section that was processed
    events,   \* the steps of the script that ran: [step, ok]
    url,      \* what send_pull_request returned
    run,      \* the number of the apply_patch call
    fs0,      \* the files when this apply_patch call started
    fileA,    \* single-file harness: the old content compared
    fileB     \* single-file harness: the new content compared

vars == <<pc, repo, fs, dirs, patch, idx, out, err, io, loc, events, url, run,
          fs0, fileA, fileB>>

Init ==
    /\ pc = "load"
    /\ repo \in Layouts
    /\ fs = EmptyDir
    /\ dirs = {}
    /\ patch \in Patches
    /\ idx = 1
    /\ out = <<>>
    /\ err = ""
    /\ io = <<>>
    /\ loc = NoLocals
    /\ events = <<>>
    /\ url = ""
    /\ run = 0
    /\ fs0 = EmptyDir
    /\ fileA = NoFile
    /\ fileB = NoFile

\* The new contents beyond Str(MaxLen): the old file with one line put before
\* or after it.
MoreLines == {<<LF>>, <<"a", LF>>, <<CR, LF>>, <<"a", CR, LF>>}
OneLineMore(A) ==
    IF A = NoFile THEN {} ELSE {l \o A : l \in MoreLines} \cup {A \o l : l \in MoreLines}

\* diff -U0 and diff -U1.
Contexts == {0, 1}

\* A caller of apply_patch(repo_dir, patch) whose patch is the diff of A and B
\* and whose repo_dir holds A at x (nothing, for a pure creation).
InitApply ==
    /\ fileA \in Str(MaxLen) \cup {NoFile}
    /\ fileB \in Str(MaxLen) \cup OneLineMore(fileA)
    /\ pc = "patch"
    /\ repo = [fs |-> [EmptyDir EXCEPT ![P_x] = fileA], dirs |-> {}]
    /\ fs = repo.fs
    /\ dirs = {}
    /\ \E ctx \in Contexts :
        patch = IF Compare(fileA, fileB, ctx) = <<>> THEN <<>>
                ELSE <<Section(IF fileA = NoFile THEN DevNull ELSE P_x, P_x,
                               Compare(fileA, fileB, ctx))>>
    /\ idx = 1
    /\ out = <<>>
    /\ err = ""
    /\ io = <<>>
    /\ loc = NoLocals
    /\ events = <<>>
    /\ url = ""
    /\ run = 1
    /\ fs0 = fs

Ev(step, ok) == [step |-> step, ok |-> ok]

Raise(e) == pc' = "raised" /\ err' = e

\* Lines 221-227 and 12-18: the output directory, then the record.
LoadRecord ==
    /\ pc = "load"
    /\ \E outdir \in BOOLEAN, found \in BOOLEAN :
        IF ~outdir
        THEN Raise("ValueError") /\ events' = events
        ELSE /\ events' = Append(events, Ev("load", found))
             /\ IF found THEN pc' = "init" /\ err' = err
                ELSE Raise("ValueError")
    /\ UNCHANGED <<repo, fs, dirs, patch, idx, out, io, loc, url, run, fs0,
                   fileA, fileB>>

\* Lines 65-91: copy output_dir/repo (over a stale copy), then the checkout.
InitializeRepo ==
    /\ pc = "init"
    /\ \E src \in BOOLEAN, base_commit \in BOOLEAN, returncode \in {0, 1} :
        IF ~src
        THEN /\ Raise("ValueError")
             /\ UNCHANGED <<fs, dirs, fs0, events, run>>
        ELSE /\ fs' = repo.fs
             /\ dirs' = repo.dirs
             /\ fs0' = repo.fs
             /\ IF ~base_commit
                THEN /\ events' = Append(events, Ev("copy", TRUE))
                     /\ pc' = "patch" /\ err' = err /\ run' = 1
                ELSE /\ events' = events \o <<Ev("copy", TRUE),
                                              Ev("checkout", returncode = 0)>>
                     /\ IF returncode = 0
                        THEN pc' = "patch" /\ err' = err /\ run' = 1
                        ELSE Raise("RuntimeError") /\ run' = run
    /\ UNCHANGED <<repo, patch, idx, out, io, loc, url, fileA, fileB>>

\* Lines 24-60: one turn of the loop of apply_patch.
ApplySection ==
    /\ pc = "patch"
    /\ idx <= Len(patch)
    /\ LET r == ProcessSection(fs, dirs, patch[idx])
       IN /\ fs' = r.fs
          /\ io' = io \o [k \in 1..Len(r.io) |->
                            [op |-> r.io[k][1], path |-> r.io[k][2], sec |-> idx]]
          /\ loc' = [r.loc EXCEPT !.kind = r.kind]
          /\ out' = IF r.kind = "skipped"
                    THEN Append(out, "Warning: Could not determine file to patch")
                    ELSE out
          /\ pc' = AfterSection(r.kind)
          /\ err' = IF r.kind = "raised" THEN r.err ELSE err
          /\ idx' = IF pc' = "raised" THEN idx ELSE idx + 1
          /\ events' = IF pc' = "raised"
                        THEN Append(events, Ev("apply_patch", FALSE))
                        ELSE events
    /\ UNCHANGED <<repo, dirs, patch, url, run, fs0, fileA, fileB>>

\* Line 62: the loop is over, apply_patch prints and returns (events notes
\* how the call ended, as it does for every step of the script).
ApplyPatchReturn ==
    /\ pc = "patch"
    /\ idx > Len(patch)
    /\ out' = Append(out, "Patch applied successfully")
    /\ pc' = "returned"
    /\ events' = Append(events, Ev("apply_patch", TRUE))
    /\ UNCHANGED <<repo, fs, dirs, patch, idx, err, io, loc, url, run, fs0,
                   fileA, fileB>>

\* Mutant: the return codes of git are not looked at.
CommitOutcomeUnchecked(rcAdd, rcCommit) ==
    [events |-> <<Ev("git_add", rcAdd = 0), Ev("git_commit", rcCommit = 0)>>,
     ok |-> TRUE]

\* Lines 94-110: git add, then git commit, each checked.
CommitOutcome(rcAdd, rcCommit) ==
    IF rcAdd # 0
    THEN [events |-> <<Ev("git_add", FALSE)>>, ok |-> FALSE]
    ELSE [events |-> <<Ev("git_add", TRUE), Ev("git_commit", rcCommit = 0)>>,
          ok |-> rcCommit = 0]

\* Lines 233-235: apply_patch returned; make_commit.
MakeCommit ==
    /\ pc = "returned"
    /\ \E rcAdd \in {0, 1}, rcCommit \in {0, 1} :
        LET c == CommitOutcome(rcAdd, rcCommit)
        IN /\ events' = events \o c.events
           /\ IF c.ok THEN pc' = "committed" /\ err' = err
              ELSE Raise("RuntimeError")
    /\ UNCHANGED <<repo, fs, dirs, patch, idx, out, io, loc, url, run, fs0,
                   fileA, fileB>>

\* Lines 113-180: GET the default branch, checkout -b, push, POST the pull
\* request; status is the POST's response status.
PullRequestOutcome(getOk, rcBranch, rcPush, status) ==
    IF ~getOk THEN [events |-> <<Ev("GET", FALSE)>>, err |-> "HTTPError"]
    ELSE IF rcBranch # 0
    THEN [events |-> <<Ev("GET", TRUE), Ev("checkout_b", FALSE)>>,
          err |-> "RuntimeError"]
    ELSE IF rcPush # 0
    THEN [events |-> <<Ev("GET", TRUE), Ev("checkout_b", TRUE), Ev("push", FALSE)>>,
          err |-> "RuntimeError"]
    ELSE [events |-> <<Ev("GET", TRUE), Ev("checkout_b", TRUE), Ev("push", TRUE),
                       Ev("POST", status = "201")>>,
          err |-> CASE status = "403" -> "RuntimeError"
                    [] status = "500" -> "HTTPError"
                    [] OTHER -> ""]

SendPullRequest ==
    /\ pc = "committed"
    /\ \E getOk \in BOOLEAN, rcBranch \in {0, 1}, rcPush \in {0, 1},
          status \in {"201", "403", "500"} :
        LET r == PullRequestOutcome(getOk, rcBranch, rcPush, status)
        IN /\ events' = events \o r.events
           /\ IF r.err = ""
              THEN pc' = "done" /\ err' = err /\ url' = "html_url"
              ELSE Raise(r.err) /\ url' = url
    /\ UNCHANGED <<repo, fs, dirs, patch, idx, out, io, loc, run, fs0, fileA,
                   fileB>>

\* The caller applies the same patch to the patched directory a second time.
CallAgain ==
    /\ pc = "returned"
    /\ run = 1
    /\ run' = run + 1
    /\ pc' = "patch"
    /\ idx' = 1
    /\ fs0' = fs
    /\ UNCHANGED <<repo, fs, dirs, patch, out, err, io, loc, events, url,
                   fileA, fileB>>

Next ==
    \/ LoadRecord
    \/ InitializeRepo
    \/ ApplySection
    \/ ApplyPatchReturn
    \/ MakeCommit
    \/ SendPullRequest

Spec == Init /\ [][Next]_vars

NextApply ==
    \/ ApplySection
    \/ ApplyPatchReturn
    \/ CallAgain

SpecApply == InitApply /\ [][NextApply]_vars

\* ============================================================== claims
Range(q) == {q[k] : k \in 1..Len(q)}

\* The apply_patch call has ended (returned or raised) and nothing ran since.
PatchEnded ==
    /\ pc \in {"returned", "raised"}
    /\ events # <<>>
    /\ events[Len(events)].step = "apply_patch"

\* The whole of apply_patch as a function of the directory and the diffs.
RECURSIVE ApplyPatchFn(_, _, _)
ApplyPatchFn(f, d, ds) ==
    IF ds = <<>> THEN [fs |-> f, err |-> ""]
    ELSE LET r == ProcessSection(f, d, Head(ds))
         IN IF r.kind = "raised" THEN [fs |-> r.fs, err |-> r.err]
            ELSE ApplyPatchFn(r.fs, d, Tail(ds))

\* ------------------------------------------------------------------ C1
\* C1 as stated: whenever the diff of A and B (not empty) has been applied to
\* A, the call returned and the file at the new path is exactly B.
C1_RoundTripAnyContent ==
    (PatchEnded /\ run = 1 /\ patch # <<>>)
        => (pc = "returned" /\ FileAt(fs, P_x) = fileB)

\* c is a sequence of lines, each a run of characters other than CR and LF
\* followed by the terminator nl ("LF" or "CRLF"); the empty content is one.
LinesEndWith(c, nl) ==
    LET raw == ReadLines(c, nl)
        term == IF nl = "CRLF" THEN <<CR, LF>> ELSE <<LF>>
    IN \A k \in 1..Len(raw) :
        /\ Len(raw[k]) >= Len(term)
        /\ SubSeq(raw[k], Len(raw[k]) - Len(term) + 1, Len(raw[k])) = term
        /\ \A j \in 1..(Len(raw[k]) - Len(term)) : raw[k][j] \notin {CR, LF}

\* A and B are made of terminated lines with one and the same line ending,
\* the one apply_patch selects for A: LF when A is absent or empty.
SameEnding(A, B) ==
    \/ (A = NoFile \/ LinesEndWith(A, "LF")) /\ LinesEndWith(B, "LF")
    \/ A # NoFile /\ A # <<>> /\ LinesEndWith(A, "CRLF") /\ LinesEndWith(B, "CRLF")

\* C1, amended: round trip for contents made of terminated lines that share
\* the line ending: the call returns and the file at the new path is B.
C1_RoundTripTerminatedLines ==
    (PatchEnded /\ run = 1 /\ patch # <<>> /\ SameEnding(fileA, fileB))
        => (pc = "returned" /\ err = "" /\ FileAt(fs, P_x) = fileB)

\* Witness: a CR LF file to which the diff added a line came out as B.
C1_Witness ==
    /\ PatchEnded /\ run = 1 /\ pc = "returned"
    /\ fileA = <<"a", CR, LF>>
    /\ fileB = <<"a", CR, LF, "a", CR, LF>>
    /\ loc.kind = "applied"
    /\ FileAt(fs, P_x) = fileB

\* ------------------------------------------------------------------ C2
\* The ending C2 names for a section: CR LF when the old file exists and
\* holds CR LF anywhere, LF otherwise.
C2_Ending(l) ==
    IF l.old_path # <<>> /\ HasCRLF(l.content) THEN <<CR, LF>> ELSE <<LF>>

\* C2 as stated: the file a section wrote is the concatenation of each
\* reconstructed line followed by that ending.
C2_WrittenIsLinesPlusEnding ==
    loc.kind = "applied"
        => FileAt(fs, loc.new_path)
             = Concat([k \in 1..Len(loc.new_content) |->
                          loc.new_content[k] \o C2_Ending(loc)])

\* ------------------------------------------------------------------ C9
RECURSIVE SplitOn(_, _, _, _)
SplitOn(c, i, cur, term) ==
    IF i > Len(c) THEN (IF cur = <<>> THEN <<>> ELSE <<cur>>)
    ELSE IF i + Len(term) - 1 <= Len(c) /\ SubSeq(c, i, i + Len(term) - 1) = term
    THEN <<cur>> \o SplitOn(c, i + Len(term), <<>>, term)
    ELSE SplitOn(c, i + 1, Append(cur, c[i]), term)

\* The content split on the detected ending, only that ending removed.
C9_ExactSplit(c, newline) ==
    CASE newline = "CRLF" -> SplitOn(c, 1, <<>>, <<CR, LF>>)
      [] newline = "LF" -> SplitOn(c, 1, <<>>, <<LF>>)
      [] OTHER -> IF c = <<>> THEN <<>> ELSE <<c>>

\* C9 as stated: the lines handed to the hunk applier for an existing old
\* file are its content split on the detected ending, nothing else removed.
C9_SplitRemovesOnlyEnding ==
    (loc.old_path # <<>> /\ loc.newline # "")
        => loc.split_content = C9_ExactSplit(loc.content, loc.newline)

\* ------------------------------------------------------------ C5, C6
\* Some Context or Removed line of hunk h differs from the line of orig at
\* its position, or its position lies outside orig.
MismatchHunk(h, orig) ==
    \E k \in 1..Len(OldSide(h)) :
        \/ Offset(h) + k > Len(orig)
        \/ orig[Offset(h) + k] # OldSide(h)[k].text

Mismatch(diff, orig) == \E k \in 1..Len(diff.hunks) : MismatchHunk(diff.hunks[k], orig)

AddedOnly(diff) == \A k \in 1..Len(diff.hunks) : OldSide(diff.hunks[k]) = <<>>

\* Some hunk begins beyond the end of orig.
BeyondEnd(diff, orig) == \E k \in 1..Len(diff.hunks) : Offset(diff.hunks[k]) > Len(orig)

\* The second apply_patch call, on the directory the first one patched, ended.
SecondEnded == PatchEnded /\ run = 2 /\ patch # <<>>

\* C6 as stated: a diff that applied once fails with a malformed-hunk error
\* when it is applied again to the patched directory.
C6_SecondApplicationFails ==
    SecondEnded => (pc = "raised" /\ err = "HunkApplyException")

\* C6, amended: the second application fails only with a malformed-hunk error
\* and only when a Context or Removed line no longer matches the patched
\* file or a hunk begins beyond its end; a diff of Added lines only that
\* begins within the patched file, and every pure creation, is applied again
\* without error and writes the file again.
C6_SecondApplicationFailsOnlyOnMismatch ==
    SecondEnded =>
        /\ pc = "raised" =>
            /\ err = "HunkApplyException"
            /\ Mismatch(patch[1], loc.split_content)
                  \/ BeyondEnd(patch[1], loc.split_content)
            /\ fs = fs0
        /\ (AddedOnly(patch[1]) /\ ~BeyondEnd(patch[1], loc.split_content)) =>
            /\ pc = "returned"
            /\ FileAt(fs, P_x) = WriteLines(loc.new_content, loc.newline)
            /\ io[Len(io)] = [op |-> "w", path |-> P_x, sec |-> 1]
        /\ patch[1].old_path = DevNull =>
            /\ pc = "returned"
            /\ fs = fs0

\* Witness: a pure creation was applied a second time and returned.
C6_Witness ==
    /\ SecondEnded
    /\ pc = "returned"
    /\ patch[1].old_path = DevNull
    /\ FileAt(fs, P_x) = fileB

\* Witness of the other case: the second application raised.
C6_WitnessRaised == SecondEnded /\ pc = "raised" /\ err = "HunkApplyException"

\* C5: a section whose hunk has a Context or Removed line that differs from
\* the line of split_content at its position, or lies outside it, raises the
\* malformed-hunk error and leaves every file, the one at the new path too,
\* as it was before the section.
C5_MismatchRaisesAndWritesNothing ==
    [][(/\ pc = "patch"
        /\ idx <= Len(patch)
        /\ patch[idx].new_path # NoPath
        /\ ReadOld(fs, dirs, patch[idx]).ok
        /\ Mismatch(patch[idx], ReadOld(fs, dirs, patch[idx]).split_content))
       => (/\ pc' = "raised"
           /\ err' = "HunkApplyException"
           /\ fs' = fs
           /\ \A k \in (Len(io) + 1)..Len(io') : io'[k].op # "w")]_vars

\* Witness: a section read a/x, met a Context line that differs, and raised;
\* the file x it was to create does not exist.
C5_Witness ==
    /\ pc = "raised"
    /\ err = "HunkApplyException"
    /\ loc.old_path = P_ax
    /\ loc.new_path = P_x
    /\ loc.split_content = <<<<SP>>>>
    /\ FileAt(fs, P_x) = NoFile

\* ------------------------------------------------------------------ C3
Skipped(diff) == diff.new_path = NoPath

Unskipped(ds) == SelectSeq(ds, LAMBDA diff : ~Skipped(diff))

\* The sections the loop has been through (the failing one included).
Reached == IF pc = "raised" THEN idx ELSE idx - 1

\* C3: when apply_patch has ended, a section without a new path opened no
\* file and printed one warning, and the files and the error (none, when the
\* other sections apply) are those of the same diff without these sections.
C3_SkipAndContinue ==
    PatchEnded =>
        /\ \A k \in 1..Len(io) : ~Skipped(patch[io[k].sec])
        /\ Len(SelectSeq(out, LAMBDA m : m = "Warning: Could not determine file to patch"))
             = Cardinality({i \in 1..Reached : Skipped(patch[i])})
        /\ fs = ApplyPatchFn(fs0, dirs, Unskipped(patch)).fs
        /\ err = ApplyPatchFn(fs0, dirs, Unskipped(patch)).err
        /\ (err = "") = (pc = "returned")

\* Witness: the first section was skipped, the second one changed x, and the
\* call returned.
C3_Witness ==
    /\ PatchEnded
    /\ pc = "returned"
    /\ Len(patch) = 2
    /\ Skipped(patch[1])
    /\ loc.kind = "applied"
    /\ fs # fs0

\* ------------------------------------------------------------------ C4
Success == "Patch applied successfully"

\* C4: the opens follow the order of the diff; when a section raised, the
\* files are those the sections before it left (its own target unwritten),
\* no later section opened a file, the error is set and the success message
\* is missing; the message is printed only after the last section, when
\* every section was applied or skipped.
C4_FatalStopKeepsEarlierWrites ==
    /\ \A j, k \in 1..Len(io) : j < k => io[j].sec <= io[k].sec
    /\ (PatchEnded /\ pc = "raised") =>
        /\ idx <= Len(patch)
        /\ fs = ApplyPatchFn(fs0, dirs, SubSeq(patch, 1, idx - 1)).fs
        /\ ApplyPatchFn(fs0, dirs, SubSeq(patch, 1, idx - 1)).err = ""
        /\ \A k \in 1..Len(io) : io[k].sec <= idx
        /\ err # ""
        /\ Success \notin Range(out)
    /\ Success \in Range(out) =>
        /\ idx = Len(patch) + 1
        /\ ApplyPatchFn(fs0, dirs, patch).err = ""
        /\ fs = ApplyPatchFn(fs0, dirs, patch).fs

\* Witness: the first section wrote x, the second one raised, x is kept.
C4_Witness ==
    /\ PatchEnded
    /\ pc = "raised"
    /\ idx = 2
    /\ \E k \in 1..Len(io) : io[k] = [op |-> "w", path |-> P_x, sec |-> 1]
    /\ fs # fs0
    /\ fs[P_x] # fs0[P_x]

\* ------------------------------------------------------------------ C7
\* Only the conventional prefix a/ or b/ removed.
StripPrefix(p) ==
    IF Len(p) >= 2 /\ p[1] \in {"a", "b"} /\ p[2] = "/"
    THEN SubSeq(p, 3, Len(p)) ELSE p

\* C7 as stated: every file opened is the header path without its a/ or b/
\* prefix, nothing else removed.
C7_OnlyPrefixStripped ==
    \A k \in 1..Len(io) :
        io[k].path = StripPrefix(IF io[k].op = "w" THEN patch[io[k].sec].new_path
                                 ELSE patch[io[k].sec].old_path)

\* ------------------------------------------------------------------ C8
\* C8 as stated: a section that reaches its write step with a new path in a
\* directory that does not exist ends with the file written there.
C8_ParentDirectoriesCreated ==
    (/\ loc.kind \in {"applied", "raised"}
     /\ io # <<>>
     /\ io[Len(io)].op = "w"
     /\ ~IsDir(dirs, Parent(loc.new_path)))
        => (/\ loc.kind = "applied"
            /\ FileAt(fs, loc.new_path) = WriteLines(loc.new_content, loc.newline))

\* ----------------------------------------------------------------- C10
Steps == [k \in 1..Len(events) |-> events[k].step]

Order == <<"load", "copy", "checkout", "apply_patch", "git_add", "git_commit",
           "GET", "checkout_b", "push", "POST">>

OrderNoCheckout == <<"load", "copy", "apply_patch", "git_add", "git_commit",
                     "GET", "checkout_b", "push", "POST">>

IsPrefix(p, q) == Len(p) <= Len(q) /\ SubSeq(q, 1, Len(p)) = p

\* C10: the steps ran in the fixed order (the checkout only with a base
\* commit), each after the one before it succeeded; a failed step is the
\* last one and the script raised; the pull request is posted only after a
\* fully applied patch, a commit and a push that succeeded; a URL is
\* returned only when the POST succeeded.
C10_PipelineOrder ==
    /\ IsPrefix(Steps, Order) \/ IsPrefix(Steps, OrderNoCheckout)
    /\ \A k \in 1..Len(events) :
        ~events[k].ok => (k = Len(events) /\ pc = "raised" /\ err # "")
    /\ "POST" \in Range(Steps) =>
        /\ Success \in Range(out)
        /\ ApplyPatchFn(fs0, dirs, patch).err = ""
        /\ fs = ApplyPatchFn(fs0, dirs, patch).fs
        /\ \A st \in {"apply_patch", "git_add", "git_commit", "push"} :
             Ev(st, TRUE) \in Range(events)
    /\ url # "" => (pc = "done" /\ events[Len(events)] = Ev("POST", TRUE))
    /\ pc = "done" => url # ""

\* Witness: the whole pipeline ran and returned the URL.
C10_Witness ==
    /\ pc = "done"
    /\ url = "html_url"
    /\ Steps = Order
    /\ fs # fs0

====
